---- MODULE Spec2Model ----
(***************************************************************************)
(* Announcements router of the High School Management System API           *)
(* (src/backend/routers/announcements.py): the announcement collection,    *)
(* the clock the handlers read, and the five request handlers.             *)
(*                                                                         *)
(* Values are tagged records so that Python's None, str and datetime stay  *)
(* distinct types: None is [t |-> "null"], a str is [t |-> "str", s |-> c] *)
(* with c its sequence of characters, a str in ISO-8601 form is            *)
(* [t |-> "iso", ...] and a stored datetime is [t |-> "date", v |-> i]     *)
(* with i the UTC instant in clock ticks.  The collection is a MongoDB     *)
(* collection: _id is its unique key, a query operator compares within one *)
(* type, and a field set to null exists.                                   *)
(*                                                                         *)
(* Spec runs the handlers one request at a time.  SpecConc runs            *)
(* update_announcement as its separate round trips to the collection, so   *)
(* that other requests come in between them.                               *)
(***************************************************************************)
EXTENDS Integers, Sequences, FiniteSets, TLC

VARIABLES
    store,  \* announcements_collection: the set of stored documents
    now,    \* the reading of the UTC clock, in ticks
    last,   \* the latest request and its response
    calls   \* the update_announcement calls in progress, one per caller

vars == <<store, now, last, calls>>

\* The clock runs from 0 to MaxNow ticks.
MaxNow == 2

\* Clock ticks per millisecond (the clock is finer than the id's resolution).
TicksPerMs == 2

---------------------------------------------------------------------------
\* Python / JSON values

None == [t |-> "null"]

Str(chars) == [t |-> "str", s |-> chars]

\* A str holding an ISO-8601 date-time: wall-clock reading, and its UTC
\* offset when the text carries one (aware).
Iso(wall, aware, off) == [t |-> "iso", wall |-> wall, aware |-> aware, off |-> off]

Date(i) == [t |-> "date", v |-> i]

Absent == [t |-> "absent"]

\* Python truthiness of None and of str: `not value`
Falsy(value) == value.t = "null" \/ (value.t = "str" /\ value.s = <<>>)

\* dict.get(key) -> None when the key is missing
Get(d, key) == IF key \in DOMAIN d THEN d[key] ELSE None

\* dict.get(key, default)
GetOr(d, key, default) == IF key \in DOMAIN d THEN d[key] ELSE default

\* str.strip(): drop leading, then trailing, whitespace
RECURSIVE LStrip(_)
LStrip(chars) ==
    IF chars # <<>> /\ Head(chars) = " " THEN LStrip(Tail(chars)) ELSE chars

RECURSIVE RStrip(_)
RStrip(chars) ==
    IF chars # <<>> /\ chars[Len(chars)] = " "
    THEN RStrip(SubSeq(chars, 1, Len(chars) - 1))
    ELSE chars

\* the text as it is, nothing dropped
StripNothing(chars) == chars

Strip(chars) == RStrip(LStrip(chars))

\* datetime.fromisoformat(value) followed by the tz defaulting of the
\* handlers: a naive reading is taken as UTC, an aware one is shifted by its
\* offset; the result is the UTC instant.  Anything but ISO text raises.
FromIso(value) ==
    IF value.t = "iso"
    THEN [raised |-> FALSE,
          val |-> Date(IF value.aware THEN value.wall - value.off ELSE value.wall)]
    ELSE [raised |-> TRUE, val |-> None]

\* int(now.timestamp()*1000): whole milliseconds since the epoch
EpochMs(t) == t \div TicksPerMs

\* f"ann-{...}"
AnnId(ms) == <<"ann-", ms>>

---------------------------------------------------------------------------
\* teachers_collection and _require_teacher

Teachers == {<<"m", "s">>}

\* the username of a teacher
Teacher == Str(<<"m", "s">>)

\* _require_teacher without the lookup in teachers_collection
RequireTeacherNoLookup(username) ==
    IF Falsy(username) THEN "Authentication required" ELSE ""

\* "" when the caller is a teacher, else the detail of the 401
RequireTeacher(username) ==
    IF Falsy(username) THEN "Authentication required"
    ELSE IF username.s \notin Teachers THEN "Invalid credentials"
    ELSE ""

---------------------------------------------------------------------------
\* The collection's operations (one round trip each)

\* find_one({"_id": id}): the matching documents (none when the set is empty)
FindOne(st, id) == {a \in st : a._id = id}

\* an insert that overwrites the stored document of the same _id
InsertOrReplace(st, doc) ==
    [raised |-> FALSE, store |-> {a \in st : a._id # doc._id} \cup {doc}]

\* insert_one(doc): _id is the collection's unique key, a second document
\* with a stored _id is refused (DuplicateKeyError) and nothing is written
InsertOne(st, doc) ==
    IF \E a \in st : a._id = doc._id
    THEN [raised |-> TRUE, store |-> st]
    ELSE [raised |-> FALSE, store |-> st \cup {doc}]

\* the document replaced by the update document (no "$set")
ReplaceFields(a, updates) ==
    [k \in {"_id"} \cup DOMAIN updates |->
        IF k \in DOMAIN updates THEN updates[k] ELSE a[k]]

\* {"$set": updates} on one document
SetFields(a, updates) ==
    [k \in DOMAIN a \cup DOMAIN updates |->
        IF k \in DOMAIN updates THEN updates[k] ELSE a[k]]

\* an update_one that writes only when the stored updated_at is not later
\* than the one it brings
UpdateOneIfNewer(st, id, updates) ==
    {IF a._id = id /\ a.updated_at.v <= updates.updated_at.v
     THEN SetFields(a, updates) ELSE a : a \in st}

\* update_one with upsert=True: a document is inserted when none matches
UpdateOneUpsert(st, id, updates) ==
    IF \E a \in st : a._id = id
    THEN {IF a._id = id THEN SetFields(a, updates) ELSE a : a \in st}
    ELSE st \cup {[k \in {"_id"} \cup DOMAIN updates |->
                        IF k = "_id" THEN id ELSE updates[k]]}

\* update_one({"_id": id}, {"$set": updates}): no upsert
UpdateOne(st, id, updates) ==
    {IF a._id = id THEN SetFields(a, updates) ELSE a : a \in st}

\* delete_many({}) in place of delete_one({"_id": id})
DeleteEvery(st, id) ==
    [deleted_count |-> Cardinality(st), store |-> {}]

\* delete_one({"_id": id})
DeleteOne(st, id) ==
    [deleted_count |-> Cardinality(FindOne(st, id)),
     store |-> st \ FindOne(st, id)]

\* {"$exists": False}
NotExists(a, key) == key \notin DOMAIN a

\* {"$lte": d} and {"$gt": d} against a datetime: comparison is within the
\* datetime type only, a null or missing field matches neither
Lte(a, key, d) == key \in DOMAIN a /\ a[key].t = "date" /\ a[key].v <= d

\* {"$gte": d} in place of {"$gt": d}
GtOrEqual(a, key, d) == key \in DOMAIN a /\ a[key].t = "date" /\ a[key].v >= d

Gt(a, key, d) == key \in DOMAIN a /\ a[key].t = "date" /\ a[key].v > d

\* the query of get_active_announcements
ActiveQuery(a, t) ==
    /\ \/ NotExists(a, "starts_at")
       \/ Lte(a, "starts_at", t)
    /\ Gt(a, "expires_at", t)

\* .sort("created_at", 1)
RECURSIVE SortAsc(_)
SortAsc(S) ==
    IF S = {} THEN <<>>
    ELSE LET m == CHOOSE a \in S : \A b \in S : a.created_at.v <= b.created_at.v
         IN  <<m>> \o SortAsc(S \ {m})

\* the documents sorted the other way round
SortDescFlipped(S) == SortAsc(S)

\* .sort("created_at", -1)
RECURSIVE SortDesc(_)
SortDesc(S) ==
    IF S = {} THEN <<>>
    ELSE LET m == CHOOSE a \in S : \A b \in S : a.created_at.v >= b.created_at.v
         IN  <<m>> \o SortDesc(S \ {m})

\* the response object built from a document
Item(a) ==
    [id |-> Get(a, "_id"),
     message |-> Get(a, "message"),
     starts_at |-> Get(a, "starts_at"),
     expires_at |-> Get(a, "expires_at"),
     created_at |-> Get(a, "created_at"),
     updated_at |-> Get(a, "updated_at")]

Items(docs) == [i \in 1..Len(docs) |-> Item(docs[i])]

---------------------------------------------------------------------------
\* Handlers, as functions of the collection st, the clock reading t and the
\* request.  Each yields the response (status, detail, ret), the collection
\* it leaves and the instant it read off the clock (None when it returned
\* before reading it).

Out(status, detail, ret, st, at) ==
    [status |-> status, detail |-> detail, ret |-> ret, store |-> st, at |-> at]

get_active_announcements(st, t) ==
    Out(200, "", Items(SortAsc({a \in st : ActiveQuery(a, t)})), st, Date(t))

list_announcements(st, username) ==
    IF RequireTeacher(username) # ""
    THEN Out(401, RequireTeacher(username), <<>>, st, None)
    ELSE Out(200, "", Items(SortDesc(st)), st, None)

\* parse_dt of create_announcement
parse_dt(value) ==
    IF Falsy(value) THEN [raised |-> FALSE, val |-> None]
    ELSE FromIso(value)

create_announcement(st, t, username, body) ==
    LET raw     == GetOr(body, "message", Str(<<>>))
        message == Strip(raw.s)
        expires == parse_dt(Get(body, "expires_at"))
        starts  == parse_dt(Get(body, "starts_at"))
        doc     == [_id |-> AnnId(EpochMs(t)),
                    message |-> Str(message),
                    starts_at |-> starts.val,
                    expires_at |-> expires.val,
                    created_at |-> Date(t),
                    updated_at |-> Date(t)]
        ins     == InsertOne(st, doc)
    IN  IF RequireTeacher(username) # ""
        THEN Out(401, RequireTeacher(username), <<>>, st, None)
        ELSE IF raw.t # "str"
        THEN Out(500, "Internal Server Error", <<>>, st, None)  \* None.strip()
        ELSE IF message = <<>>
        THEN Out(400, "Message is required", <<>>, st, None)
        ELSE IF expires.raised
        THEN Out(400, "Invalid datetime format", <<>>, st, None)
        ELSE IF Falsy(expires.val)
        THEN Out(400, "Expiration is required", <<>>, st, None)
        ELSE IF starts.raised
        THEN Out(400, "Invalid datetime format", <<>>, st, None)
        ELSE IF ins.raised
        THEN Out(500, "Internal Server Error", <<>>, st, Date(t))  \* DuplicateKeyError
        ELSE Out(200, "", <<Item(doc)>>, ins.store, Date(t))

\* parse_dt_optional turning a parse failure into None instead of raising
parse_dt_optional_lenient(value) ==
    IF value.t = "null" THEN [raised |-> FALSE, val |-> None]
    ELSE [raised |-> FALSE, val |-> FromIso(value).val]

\* parse_dt_optional of update_announcement
parse_dt_optional(value) ==
    IF value.t = "null" THEN [raised |-> FALSE, val |-> None]
    ELSE FromIso(value)

\* the patch validation without the `if not parsed` check on expires_at
PatchErrorUnchecked(body) ==
    LET given   == Get(body, "message")
        message == Strip(IF Falsy(given) THEN <<>> ELSE given.s)
        starts  == parse_dt_optional(Get(body, "starts_at"))
        parsed  == parse_dt_optional(Get(body, "expires_at"))
    IN  IF "message" \in DOMAIN body /\ message = <<>>
        THEN "Message is required"
        ELSE IF "starts_at" \in DOMAIN body /\ starts.raised
        THEN "Invalid datetime format"
        ELSE IF "expires_at" \in DOMAIN body /\ parsed.raised
        THEN "Invalid datetime format"
        ELSE ""

\* the patch validation of update_announcement: the detail of the first
\* check that raises, "" when none does
PatchError(body) ==
    LET given   == Get(body, "message")
        message == Strip(IF Falsy(given) THEN <<>> ELSE given.s)
        starts  == parse_dt_optional(Get(body, "starts_at"))
        parsed  == parse_dt_optional(Get(body, "expires_at"))
    IN  IF "message" \in DOMAIN body /\ message = <<>>
        THEN "Message is required"
        ELSE IF "starts_at" \in DOMAIN body /\ starts.raised
        THEN "Invalid datetime format"
        ELSE IF "expires_at" \in DOMAIN body /\ parsed.raised
        THEN "Invalid datetime format"
        ELSE IF "expires_at" \in DOMAIN body /\ Falsy(parsed.val)
        THEN "Expiration is required"
        ELSE ""

\* the $set document without the updated_at stamp
PatchUpdatesUnstamped(body, t) ==
    [k \in {"message", "starts_at", "expires_at"} \cap DOMAIN body |->
        CASE k = "message" -> Str(Strip(body.message.s))
          [] k = "starts_at" -> parse_dt_optional(body.starts_at).val
          [] k = "expires_at" -> parse_dt_optional(body.expires_at).val]

\* the $set document update_announcement builds from a patch that passed
PatchUpdates(body, t) ==
    [k \in ({"message", "starts_at", "expires_at"} \cap DOMAIN body)
              \cup {"updated_at"} |->
        CASE k = "message" -> Str(Strip(body.message.s))
          [] k = "starts_at" -> parse_dt_optional(body.starts_at).val
          [] k = "expires_at" -> parse_dt_optional(body.expires_at).val
          [] k = "updated_at" -> Date(t)]

\* update_announcement up to the store write: the 401, 404 or 400 it ends
\* in, or status 200 with the $set document it goes on to write
UpdatePlan(st, t, username, id, body) ==
    LET Fail(status, detail) ==
            [status |-> status, detail |-> detail, updates |-> <<>>]
    IN  IF RequireTeacher(username) # ""
        THEN Fail(401, RequireTeacher(username))
        ELSE IF FindOne(st, id) = {}
        THEN Fail(404, "Announcement not found")
        ELSE IF PatchError(body) # ""
        THEN Fail(400, PatchError(body))
        ELSE [status |-> 200, detail |-> "", updates |-> PatchUpdates(body, t)]

\* update_announcement after the store write: the re-read and the response
UpdateResponse(st, id, at) ==
    LET new_doc == FindOne(st, id)
    IN  IF new_doc = {}
        THEN Out(500, "Internal Server Error", <<>>, st, at)  \* None.get(...)
        ELSE Out(200, "", <<Item(CHOOSE a \in new_doc : TRUE)>>, st, at)

\* update_announcement stamping updated_at before it validates the patch
update_announcement_stamp_first(st, t, username, id, body) ==
    LET plan    == UpdatePlan(st, t, username, id, body)
        stamped == UpdateOne(st, id, [updated_at |-> Date(t)])
    IN  IF plan.status = 400
        THEN Out(plan.status, plan.detail, <<>>, stamped, Date(t))
        ELSE IF plan.status # 200
        THEN Out(plan.status, plan.detail, <<>>, st, None)
        ELSE UpdateResponse(UpdateOne(st, id, plan.updates), id, Date(t))

update_announcement(st, t, username, id, body) ==
    LET plan == UpdatePlan(st, t, username, id, body)
    IN  IF plan.status # 200
        THEN Out(plan.status, plan.detail, <<>>, st, None)
        ELSE UpdateResponse(UpdateOne(st, id, plan.updates), id, Date(t))

delete_announcement(st, username, id) ==
    LET res == DeleteOne(st, id)
    IN  IF RequireTeacher(username) # ""
        THEN Out(401, RequireTeacher(username), <<>>, st, None)
        ELSE IF res.deleted_count = 0
        THEN Out(404, "Announcement not found", <<>>, st, None)
        ELSE Out(200, "Announcement deleted", <<>>, res.store, None)

---------------------------------------------------------------------------
\* Requests

\* teacher_username: missing, empty, unknown, known
Creds == {None, Str(<<>>), Str(<<"x">>), Teacher}

\* ISO texts: an early naive one, one for the last reading of the clock, and
\* a late one carrying an offset
EarlyText == Iso(1, FALSE, 0)

MidText == Iso(MaxNow, FALSE, 0)

LateText == Iso(MaxNow + 2, TRUE, 1)

\* the JSON body with the keys that are not Absent
Body(m, s, e) ==
    [k \in {j \in {"message", "starts_at", "expires_at"} :
               \/ j = "message" /\ m # Absent
               \/ j = "starts_at" /\ s # Absent
               \/ j = "expires_at" /\ e # Absent} |->
        CASE k = "message" -> m
          [] k = "starts_at" -> s
          [] k = "expires_at" -> e]

\* message texts that are not blank: padded, plain
GoodMessages == {Str(<<" ", "a", " ">>), Str(<<"b">>)}

\* bodies whose present fields are all acceptable (message not blank,
\* starts_at null or ISO text, expires_at ISO text that expires within the
\* clock's range or after it): complete ones, patches of a single field, the
\* empty body
GoodBodies ==
    {Body(m, s, e) : m \in GoodMessages, s \in {Absent, EarlyText, LateText},
                     e \in {MidText, LateText}}
    \cup {Body(Str(<<"b">>), None, LateText)}
    \cup {Body(m, Absent, Absent) : m \in GoodMessages \cup {Absent}}
    \cup {Body(Absent, s, Absent) : s \in {None, EarlyText, LateText}}
    \cup {Body(Absent, Absent, e) : e \in {MidText, LateText}}

\* bodies with one field that is no usable value (message null or blank,
\* starts_at empty or not a date, expires_at null, empty or not a date),
\* alone or next to acceptable fields
BadBodies ==
    {Body(m, Absent, Absent) : m \in {None, Str(<<" ">>)}}
    \cup {Body(m, EarlyText, LateText) : m \in {None, Str(<<" ">>)}}
    \cup {Body(Absent, Str(<<"x">>), Absent), Body(Str(<<"b">>), Str(<<"x">>), LateText)}
    \cup {Body(Absent, Absent, e) : e \in {None, Str(<<>>), Str(<<"x">>)}}
    \cup {Body(Str(<<"b">>), EarlyText, e) : e \in {None, Str(<<>>), Str(<<"x">>)}}
    \cup {Body(Str(<<"b">>), Str(<<>>), LateText)}

\* bodies with several refused fields, and one with an unrecognized key only
MixedBodies ==
    {Body(Str(<<" ">>), Str(<<"x">>), LateText),
     Body(Str(<<" ">>), EarlyText, None),
     Body(Str(<<"b">>), Str(<<"x">>), None),
     Body(Str(<<"b">>), Str(<<"x">>), Str(<<"x">>)),
     Body(Str(<<" ">>), Str(<<"x">>), None),
     [color |-> Str(<<"r">>)]}

Bodies == GoodBodies \cup BadBodies \cup MixedBodies

\* the bodies sent along with a credential that is not a teacher's: an empty
\* one, a complete one, a refused one
ProbeBodies ==
    {Body(Absent, Absent, Absent),
     Body(Str(<<"b">>), EarlyText, LateText),
     Body(Str(<<" ">>), Str(<<"x">>), None)}

\* (teacher_username, body) of the requests that carry a body
BodyRequests ==
    {<<u, b>> \in Creds \X Bodies : RequireTeacher(u) = "" \/ b \in ProbeBodies}

\* announcement_id: every id a Create can generate
IdInputs == {AnnId(ms) : ms \in 0..EpochMs(MaxNow)}

---------------------------------------------------------------------------
\* The system

\* the callers that may have an update_announcement call in progress
Callers == {1, 2}

\* the state of one caller's update_announcement call: where it stands (pc),
\* its arguments, the instant it stamped, its response, and hit: 0 until its
\* store write and when that write matched no document, the arrival number
\* of the write among those that reached the document stored under the id,
\* -1 once that document has been deleted
Call(pc, id, body, at, hit, status, detail, ret) ==
    [pc |-> pc, id |-> id, body |-> body, at |-> at, hit |-> hit,
     status |-> status, detail |-> detail, ret |-> ret]

\* no call in progress
Idle == Call("idle", AnnId(0), Body(Absent, Absent, Absent), None, 0, 0, "", <<>>)

Init ==
    /\ store = {}
    /\ now = 0
    /\ last = [op |-> "none", status |-> 0, detail |-> "", ret |-> <<>>,
               at |-> None]
    /\ calls = [c \in Callers |-> Idle]

\* a handler returns: the collection and the response it leaves
Respond(op, out) ==
    /\ store' = out.store
    /\ last' = [op |-> op, status |-> out.status, detail |-> out.detail,
                ret |-> out.ret, at |-> out.at]
    /\ UNCHANGED <<now, calls>>

\* a clock that is also set back
TickEitherWay ==
    /\ \E t \in {now - 1, now + 1} : t \in 0..MaxNow /\ now' = t
    /\ UNCHANGED <<store, last, calls>>

\* the clock advances
Tick ==
    /\ now < MaxNow
    /\ now' = now + 1
    /\ UNCHANGED <<store, last, calls>>

ListActive ==
    Respond("ListActive", get_active_announcements(store, now))

ListAll ==
    \E username \in Creds :
        Respond("ListAll", list_announcements(store, username))

Create ==
    \E req \in BodyRequests :
        Respond("Create",
                create_announcement(store, now, req[1], req[2]))

Update ==
    \E req \in BodyRequests, id \in IdInputs :
        Respond("Update",
                update_announcement(store, now, req[1], id, req[2]))

Delete ==
    \E username \in Creds, id \in IdInputs :
        Respond("Delete",
                delete_announcement(store, username, id))

Next ==
    \/ Tick
    \/ ListActive
    \/ ListAll
    \/ Create
    \/ Update
    \/ Delete

Spec == Init /\ [][Next]_vars

---------------------------------------------------------------------------
\* update_announcement as its round trips to the collection, with the
\* requests of other callers in between

\* the patches of the calls in progress: two that set the message (and one
\* other field each), one the handler refuses, an empty one
ConcPatches ==
    {Body(Str(<<" ", "a", " ">>), Absent, EarlyText),
     Body(Str(<<"b">>), None, LateText),
     Body(Absent, Absent, None),
     Body(Absent, Absent, Absent)}

\* the body of the Create requests that come in between
ConcBodies == {Body(Str(<<"b">>), EarlyText, LateText)}

\* the largest of a set of integers, 0 for the empty set
Max(S) == IF S = {} THEN 0 ELSE CHOOSE m \in S : \A n \in S : n <= m

\* a teacher's call starts: _require_teacher, then find_one and the 404
UpdateFind(c) ==
    /\ calls[c].pc = "idle"
    /\ \E id \in IdInputs, body \in ConcPatches :
        LET plan == UpdatePlan(store, now, Teacher, id, body)
        IN  calls' = [calls EXCEPT ![c] =
                IF plan.status \in {401, 404}
                THEN Call("done", id, body, None, 0, plan.status, plan.detail, <<>>)
                ELSE Call("found", id, body, None, 0, 0, "", <<>>)]
    /\ UNCHANGED <<store, now, last>>

\* the patch is validated and updated_at is read off the clock
UpdateStamp(c) ==
    /\ calls[c].pc = "found"
    /\ calls' = [calls EXCEPT ![c] =
            IF PatchError(calls[c].body) # ""
            THEN [@ EXCEPT !.pc = "done", !.status = 400,
                           !.detail = PatchError(calls[c].body)]
            ELSE [@ EXCEPT !.pc = "stamped", !.at = Date(now)]]
    /\ UNCHANGED <<store, now, last>>

\* update_one: the store write
UpdateWrite(c) ==
    /\ calls[c].pc = "stamped"
    /\ store' = UpdateOne(store, calls[c].id,
                          PatchUpdates(calls[c].body, calls[c].at.v))
    /\ calls' = [calls EXCEPT ![c] =
            [@ EXCEPT !.pc = "written",
                      !.hit = IF FindOne(store, calls[c].id) = {} THEN 0
                              ELSE 1 + Max({calls[d].hit : d \in
                                        {e \in Callers : calls[e].id = calls[c].id}})]]
    /\ UNCHANGED <<now, last>>

\* the second find_one and the response
UpdateReread(c) ==
    /\ calls[c].pc = "written"
    /\ LET out == UpdateResponse(store, calls[c].id, calls[c].at)
       IN  calls' = [calls EXCEPT ![c] =
                [@ EXCEPT !.pc = "done", !.status = out.status,
                          !.detail = out.detail, !.ret = out.ret]]
    /\ UNCHANGED <<store, now, last>>

\* a teacher's Create between the steps of the calls
ConcCreate ==
    /\ \E body \in ConcBodies :
            store' = create_announcement(store, now, Teacher, body).store
    /\ UNCHANGED <<now, last, calls>>

\* a teacher's Delete between the steps of the calls; what the calls wrote
\* to the deleted document goes with it
ConcDelete ==
    /\ \E id \in IdInputs :
        LET out == delete_announcement(store, Teacher, id)
        IN  /\ store' = out.store
            /\ calls' = [c \in Callers |->
                    IF out.status = 200 /\ calls[c].id = id /\ calls[c].hit > 0
                    THEN [calls[c] EXCEPT !.hit = -1]
                    ELSE calls[c]]
    /\ UNCHANGED <<now, last>>

NextConc ==
    \/ Tick
    \/ ConcCreate
    \/ ConcDelete
    \/ \E c \in Callers : UpdateFind(c)
    \/ \E c \in Callers : UpdateStamp(c)
    \/ \E c \in Callers : UpdateWrite(c)
    \/ \E c \in Callers : UpdateReread(c)

SpecConc == Init /\ [][NextConc]_vars

---------------------------------------------------------------------------
\* Properties

Range(seq) == {seq[i] : i \in 1..Len(seq)}

Ids(st) == {a._id : a \in st}

\* C1: every stored announcement with no starts_at whose expires_at is
\* strictly later than the instant of a ListActive call is in that call's
\* result.
C1_NoStartIsListed ==
    last.op = "ListActive" =>
        \A a \in store :
            (Get(a, "starts_at") = None /\ a.expires_at.v > last.at.v)
                => Item(a) \in Range(last.ret)

\* C2: ListActive returns no announcement whose expires_at is at or before
\* the instant of the call, and none whose starts_at is strictly after it.
C2_ListedAreInWindow ==
    last.op = "ListActive" =>
        \A item \in Range(last.ret) :
            /\ item.expires_at.t = "date"
            /\ item.expires_at.v > last.at.v
            /\ ~(item.starts_at.t = "date" /\ item.starts_at.v > last.at.v)

\* ListActive returned one announcement and left out a stored one that had
\* expired by the call.
C2_Witness ==
    /\ last.op = "ListActive"
    /\ Len(last.ret) = 1
    /\ \E a \in store : a.expires_at.v <= last.at.v

\* C3: an Update that ends in InvalidArgument leaves the whole collection as
\* it was, whatever else the patch carries.
C3_RejectedPatchWritesNothing ==
    [][(now' = now /\ last'.op = "Update" /\ last'.status = 400)
            => store' = store]_vars

\* An Update was refused for its expires_at while a record was stored.
C3_Witness ==
    /\ last.op = "Update"
    /\ last.status = 400
    /\ last.detail = "Expiration is required"
    /\ store # {}

\* C4: every stored announcement has an expires_at that is a timestamp.
C4_ExpiresAlwaysPresent ==
    \A a \in store : "expires_at" \in DOMAIN a /\ a.expires_at.t = "date"

\* Two records are stored and the latest request was a successful Update.
C4_Witness ==
    /\ last.op = "Update"
    /\ last.status = 200
    /\ Cardinality(store) = 2

\* Delete and Update on an id that is not stored end in NotFound and write
\* nothing; Delete on a stored id removes that record and no other.
C5_DeleteOutcome ==
    \A id \in IdInputs :
        LET del == delete_announcement(store, Teacher, id)
        IN  IF id \notin Ids(store)
            THEN /\ del.status = 404
                 /\ del.store = store
                 /\ \A body \in Bodies :
                        LET upd == update_announcement(store, now, Teacher, id, body)
                        IN  upd.status = 404 /\ upd.store = store
            ELSE /\ del.status = 200
                 /\ id \notin Ids(del.store)
                 /\ del.store = {a \in store : a._id # id}

\* An id that is not stored becomes stored only by a successful Create.
C5_OnlyCreateAdds ==
    \A id \in IdInputs :
        (id \notin Ids(store) /\ id \in Ids(store'))
            => (last'.op = "Create" /\ last'.status = 200)

\* C5: Delete on an id not in the store ends in NotFound and changes
\* nothing; Delete on a stored id removes exactly that record; from then on
\* Update and Delete on that id end in NotFound, and the id comes back only
\* through a new Create.
C5_DeleteIsPermanent == []C5_DeleteOutcome /\ [][C5_OnlyCreateAdds]_vars

\* A Delete succeeded and left the other record in place.
C5_Witness ==
    /\ last.op = "Delete"
    /\ last.status = 200
    /\ Cardinality(store) = 1

\* the response is a 401 and the collection is as before
Denied(out) == out.status = 401 /\ out.store = store

\* C6: ListAll, Create, Update and Delete with a missing, empty or unknown
\* credential end in Unauthorized and leave the collection unchanged whatever
\* the other arguments; ListActive succeeds with no credential.
C6_CredentialComesFirst ==
    /\ get_active_announcements(store, now).status = 200
    /\ \A u \in Creds :
        (u.t = "null" \/ u.s = <<>> \/ u.s \notin Teachers) =>
            /\ Denied(list_announcements(store, u))
            /\ \A id \in IdInputs : Denied(delete_announcement(store, u, id))
            /\ \A body \in ProbeBodies \cup BadBodies \cup MixedBodies :
                /\ Denied(create_announcement(store, now, u, body))
                /\ \A id \in IdInputs :
                        Denied(update_announcement(store, now, u, id, body))

\* An Update by an unknown user was refused while nothing was stored (the id
\* it named did not exist).
C6_Witness ==
    /\ last.op = "Update"
    /\ last.status = 401
    /\ last.detail = "Invalid credentials"
    /\ store = {}

\* the patch's message and starts_at, when present, are acceptable
RestOfPatchPasses(body) ==
    /\ "message" \in DOMAIN body =>
            body.message.t = "str" /\ Strip(body.message.s) # <<>>
    /\ "starts_at" \in DOMAIN body => body.starts_at.t \in {"null", "iso"}

\* the patch carries an expires_at that is null or text that is no date-time
ExpiresUnusable(body) ==
    "expires_at" \in DOMAIN body /\ body.expires_at.t \in {"null", "str"}

\* C7 as stated: an Update by a teacher on a stored id whose patch carries
\* an expires_at that is null or unparsable text ends in InvalidArgument
\* "Expiration is required".
C7_UnusableExpiresIsRequired ==
    \A id \in Ids(store), body \in Bodies :
        (ExpiresUnusable(body) /\ RestOfPatchPasses(body)) =>
            LET out == update_announcement(store, now, Teacher, id, body)
            IN  out.status = 400 /\ out.detail = "Expiration is required"

\* C7 amended: such a patch ends in InvalidArgument; when the rest of the
\* patch passes, the detail is "Expiration is required" for null and
\* "Invalid datetime format" for unparsable text.
C7_UnusableExpiresIsRejected ==
    \A id \in Ids(store), body \in Bodies :
        ExpiresUnusable(body) =>
            LET out == update_announcement(store, now, Teacher, id, body)
            IN  /\ out.status = 400
                /\ RestOfPatchPasses(body) =>
                        out.detail = IF body.expires_at.t = "null"
                                     THEN "Expiration is required"
                                     ELSE "Invalid datetime format"

\* An Update was refused with the response a patch holding only an
\* unparsable expires_at gets.
C7_Witness ==
    /\ last.op = "Update"
    /\ last.detail = "Invalid datetime format"
    /\ \E id \in Ids(store) :
            LET out == update_announcement(store, now, Teacher, id,
                                           Body(Absent, Absent, Str(<<"x">>)))
            IN  out.status = last.status /\ out.detail = last.detail

\* C8: a Create by a teacher with a message that is not blank, a parseable
\* expires_at and an absent or parseable starts_at succeeds in every state:
\* it adds one record with id "ann-" + epoch milliseconds and created_at =
\* updated_at = now, leaves the other records alone and returns the record.
C8_ValidCreateSucceeds ==
    \A body \in GoodBodies :
        ({"message", "expires_at"} \subseteq DOMAIN body
            /\ ("starts_at" \in DOMAIN body => body.starts_at.t = "iso")) =>
            LET out == create_announcement(store, now, Teacher, body)
            IN  /\ out.status = 200
                /\ store \subseteq out.store
                /\ \E doc \in out.store \ store :
                    /\ out.store = store \cup {doc}
                    /\ doc._id = AnnId(EpochMs(now))
                    /\ doc.created_at = Date(now)
                    /\ doc.updated_at = Date(now)
                    /\ out.ret = <<Item(doc)>>

\* no two stored announcements share an id
C9_IdsDistinct == \A a, b \in store : a._id = b._id => a = b

\* a Create keeps every stored record as it is; an Update keeps the ids
C9_IdsKept ==
    now' = now =>
        /\ last'.op = "Create" => store \subseteq store'
        /\ last'.op = "Update" =>
                Ids(store') = Ids(store) /\ Cardinality(store') = Cardinality(store)

\* C9: no two stored announcements share an id, no operation changes the id
\* of a stored record, and a Create never overwrites the record stored under
\* the id it generates.
C9_IdsUniqueAndKept == []C9_IdsDistinct /\ [][C9_IdsKept]_vars

\* A Create generated the id of a stored record (it had read the clock) and
\* was refused.
C9_Witness ==
    /\ last.op = "Create"
    /\ last.status = 500
    /\ last.at # None
    /\ AnnId(EpochMs(last.at.v)) \in Ids(store)

\* C10: a successful Update changes, in the targeted record, only the
\* fields the patch names and updated_at (never _id or created_at), and
\* changes no other record.
C10_UpdateFrame ==
    \A id \in Ids(store), body \in Bodies :
        LET out == update_announcement(store, now, Teacher, id, body)
        IN  out.status = 200 =>
                /\ Cardinality(out.store) = Cardinality(store)
                /\ \A a \in store :
                    IF a._id # id THEN a \in out.store
                    ELSE \E n \in out.store :
                            /\ n._id = id
                            /\ DOMAIN n = DOMAIN a
                            /\ \A k \in DOMAIN a :
                                 k \notin ({"message", "starts_at", "expires_at"}
                                               \cap DOMAIN body) \cup {"updated_at"}
                                     => n[k] = a[k]

\* An Update succeeded on a record created earlier while another record was
\* stored.
C10_Witness ==
    /\ last.op = "Update"
    /\ last.status = 200
    /\ Cardinality(store) = 2
    /\ last.ret[1].updated_at # last.ret[1].created_at

\* C11: every Update call by a teacher ends in NotFound, in InvalidArgument
\* or in success with the full record of its id as stored after the update,
\* also when a Delete of the same id runs between its existence check, its
\* store write and its re-read.
C11_UpdateEndsInOneOfThree ==
    \A c \in Callers :
        calls[c].pc = "done" =>
            \/ calls[c].status = 404 /\ calls[c].detail = "Announcement not found"
            \/ calls[c].status = 400
            \/ /\ calls[c].status = 200
               /\ Len(calls[c].ret) = 1
               /\ calls[c].ret[1].id = calls[c].id
               /\ calls[c].ret[1].updated_at.t = "date"

\* the body's message is a string that is not blank
MessageUsable(body) ==
    /\ "message" \in DOMAIN body
    /\ body.message.t = "str"
    /\ Strip(body.message.s) # <<>>

\* the field is present as text that is not a date-time
Unparsable(body, key) == key \in DOMAIN body /\ body[key].t = "str"

\* the field is absent, or (when nullable) null, or a date-time in ISO form
Parsable(body, key, nullable) ==
    key \in DOMAIN body =>
        body[key].t = "iso" \/ (nullable /\ body[key].t = "null")

\* the Create is refused with this detail and stores nothing
Refused(out, detail) ==
    out.status = 400 /\ out.detail = detail /\ out.store = store

\* C12: a Create by a teacher that fails validation stores nothing and
\* reports the message of its cause: "Message is required" for a message
\* missing or blank, "Expiration is required" for an expires_at missing or
\* null, "Invalid datetime format" for an expires_at or starts_at present as
\* text that is no date-time.
C12_CreateReportsItsCause ==
    \A body \in Bodies :
        LET out == create_announcement(store, now, Teacher, body)
        IN  /\ ("message" \notin DOMAIN body
                    \/ (body.message.t = "str" /\ Strip(body.message.s) = <<>>))
                => Refused(out, "Message is required")
            /\ (MessageUsable(body) /\ Parsable(body, "starts_at", TRUE)
                    /\ Get(body, "expires_at") = None)
                => Refused(out, "Expiration is required")
            /\ (MessageUsable(body) /\ Parsable(body, "starts_at", TRUE)
                    /\ Unparsable(body, "expires_at"))
                => Refused(out, "Invalid datetime format")
            /\ (MessageUsable(body) /\ Parsable(body, "expires_at", FALSE)
                    /\ "expires_at" \in DOMAIN body
                    /\ Unparsable(body, "starts_at"))
                => Refused(out, "Invalid datetime format")

\* C13: in every reachable state every stored announcement's message is a
\* string that is not empty and has no leading or trailing whitespace.
C13_MessageTrimmedNonEmpty ==
    \A a \in store :
        /\ "message" \in DOMAIN a
        /\ a.message.t = "str"
        /\ a.message.s # <<>>
        /\ Head(a.message.s) # " "
        /\ a.message.s[Len(a.message.s)] # " "

\* An Update succeeded and returned the message "a", which requests carry
\* only with blanks around it, while a second record was stored.
C13_Witness ==
    /\ last.op = "Update"
    /\ last.status = 200
    /\ last.ret[1].message = Str(<<"a">>)
    /\ last.ret[1].updated_at # last.ret[1].created_at
    /\ Cardinality(store) = 2

\* patches with no recognized key: the empty one, one with another key
UnrecognizedOnly == {Body(Absent, Absent, Absent), [color |-> Str(<<"r">>)]}

\* C14: a successful Update leaves its record with updated_at equal to the
\* instant of the call and returns it so; an Update whose patch is empty or
\* has only unrecognized keys succeeds on a stored id and changes updated_at
\* of that record and nothing else in the collection.
C14_UpdatedAtRefreshed ==
    /\ (last.op = "Update" /\ last.status = 200) =>
            /\ last.at.t = "date"
            /\ last.ret[1].updated_at = last.at
            /\ \E a \in store : Item(a) = last.ret[1]
    /\ \A id \in Ids(store), body \in UnrecognizedOnly :
            LET out == update_announcement(store, now, Teacher, id, body)
            IN  /\ out.status = 200
                /\ out.store = {IF a._id = id
                                THEN [a EXCEPT !.updated_at = Date(now)]
                                ELSE a : a \in store}
                /\ out.ret[1].updated_at = Date(now)

\* An Update at the end of the clock returned the first record created, as
\* it was created but for its later updated_at.
C14_Witness ==
    /\ last.op = "Update"
    /\ last.status = 200
    /\ now = MaxNow
    /\ LET made == create_announcement({}, 0, Teacher,
                                       Body(Str(<<"b">>), Absent, LateText))
       IN  last.ret[1] = [made.ret[1] EXCEPT !.updated_at = Date(MaxNow)]

\* the $set document of a call that has stamped its updated_at
Written(c) == PatchUpdates(calls[c].body, calls[c].at.v)

\* C15: when two Update calls on the same stored id have both completed,
\* each having written to the record stored since, neither was rejected and
\* every field both patches set holds the value of the later store write.
C15_LastWriterWins ==
    \A c, d \in Callers :
        (/\ calls[c].pc = "done" /\ calls[d].pc = "done"
         /\ calls[c].id = calls[d].id
         /\ calls[c].hit > calls[d].hit /\ calls[d].hit > 0) =>
            /\ calls[c].status = 200
            /\ calls[d].status = 200
            /\ \E a \in FindOne(store, calls[c].id) :
                    \A k \in DOMAIN Written(c) \cap DOMAIN Written(d) :
                        a[k] = Written(c)[k]

\* Both calls completed on one id with different messages; the one that
\* stamped first wrote last.
C15_Witness ==
    /\ calls[1].pc = "done" /\ calls[2].pc = "done"
    /\ calls[1].id = calls[2].id
    /\ calls[1].hit = 2 /\ calls[2].hit = 1
    /\ calls[1].status = 200 /\ calls[2].status = 200
    /\ calls[1].at.v < calls[2].at.v
    /\ "message" \in DOMAIN calls[1].body \cap DOMAIN calls[2].body
    /\ calls[1].body.message # calls[2].body.message

\* the items are in ascending order of created_at
Ascending(items) ==
    \A i, j \in 1..Len(items) :
        i < j => items[i].created_at.v <= items[j].created_at.v

\* the items are in descending order of created_at
Descending(items) ==
    \A i, j \in 1..Len(items) :
        i < j => items[i].created_at.v >= items[j].created_at.v

\* C16: ListActive returns the announcements matching its query in
\* ascending order of created_at; ListAll with a teacher's credential
\* returns every stored announcement, whatever its window, in descending
\* order of created_at.
C16_ListOrders ==
    LET active == get_active_announcements(store, now).ret
        all    == list_announcements(store, Teacher).ret
    IN  /\ Ascending(active)
        /\ Range(active) = {Item(a) : a \in {b \in store : ActiveQuery(b, now)}}
        /\ Descending(all)
        /\ Len(all) = Cardinality(store)
        /\ Range(all) = {Item(a) : a \in store}
        /\ (last.op = "ListAll" /\ last.status = 200) => last.ret = all
        /\ last.op = "ListActive" =>
                last.ret = get_active_announcements(store, last.at.v).ret

\* ListAll returned two announcements, the newer first, while ListActive
\* would return only one of them.
C16_Witness ==
    /\ last.op = "ListAll"
    /\ last.status = 200
    /\ Len(last.ret) = 2
    /\ last.ret[1].created_at.v > last.ret[2].created_at.v
    /\ Len(get_active_announcements(store, now).ret) = 1

\* C17: an Update creates no record: no step of an Update call adds or
\* removes an id, so an id deleted between the call's existence check and
\* its store write is not stored again by the call.
C17_UpdateNeverCreates ==
    [][\A c \in Callers :
            calls'[c].pc # calls[c].pc =>
                /\ Ids(store') = Ids(store)
                /\ Cardinality(store') = Cardinality(store)]_vars

\* A call found its record, the record was deleted before the call's store
\* write, and the call finished: its id is not stored, another record is.
C17_Witness ==
    \E c \in Callers :
        /\ calls[c].pc = "done"
        /\ calls[c].at # None
        /\ calls[c].hit = 0
        /\ calls[c].id \notin Ids(store)
        /\ store # {}

====
